---- MODULE Spec2Model ----
(***************************************************************************)
(* Model of streamlit_app.py: the paginated download of bird detections    *)
(* (get_bird_data), its synthetic fallback (get_simulated_data) and the    *)
(* branch of the script that consumes the returned table.                  *)
(*                                                                         *)
(* One run of the script is one behaviour: the script picks the date       *)
(* range, calls get_bird_data, which alternates between sending one HTTP   *)
(* GET (Send) and handling its outcome (Recv) until it returns, and the    *)
(* script then renders the table (Render).  The detection API is the       *)
(* environment: every outcome of a GET is chosen nondeterministically.     *)
(***************************************************************************)
EXTENDS Integers, Sequences, FiniteSets, TLC

\* ---------------------------------------------------------------- bounds
\* Number of requests of one invocation that the model follows exactly.
\* Past it the loop keeps running but offset, all_detections and the request
\* log are no longer extended (horizon = TRUE marks those states).
MaxRequests == 3

\* ------------------------------------------------------ program constants
PAGE_LIMIT == 1000

\* The five columns the script selects for the detail table.
CanonicalColumns == {"Timestamp", "CommonName", "ScientificName", "Confidence", "Source"}

\* rename_map of get_bird_data, as a function on column names.
rename_map(c) ==
    CASE c = "beginTime"      -> "Timestamp"
      [] c = "commonName"     -> "CommonName"
      [] c = "scientificName" -> "ScientificName"
      [] c = "source"         -> "Source"
      [] c = "confidence"     -> "Confidence"
      [] OTHER                -> c

\* ------------------------------------------------------------ environment
\* Dates the user can pick in the sidebar (a month boundary is included so
\* that formatting and day arithmetic are exercised).
Dates ==
    { [year |-> 2025, month |-> 2, day |-> 27],
      [year |-> 2025, month |-> 2, day |-> 28],
      [year |-> 2025, month |-> 3, day |-> 1] }

\* Field names of the raw records the API may deliver.
FullSchema == {"id", "beginTime", "commonName", "scientificName", "source", "confidence"}
Schemas == { FullSchema, FullSchema \ {"beginTime"}, {"id", "species"} }

\* Sizes of the detection list the server holds for the range.
ServerSizes ==
    {0, 1} \cup
    { n \in { k * PAGE_LIMIT + e : k \in 1..(MaxRequests - 1), e \in {-1, 0, 1} } :
        n < MaxRequests * PAGE_LIMIT }

\* ------------------------------------------------------------------ dates
IsLeap(y) == (y % 4 = 0) /\ ((y % 100 # 0) \/ (y % 400 = 0))

DaysInMonth(y, m) ==
    IF m = 2 THEN (IF IsLeap(y) THEN 29 ELSE 28)
    ELSE IF m \in {4, 6, 9, 11} THEN 30 ELSE 31

RECURSIVE DaysBeforeMonth(_, _)
DaysBeforeMonth(y, m) ==
    IF m = 1 THEN 0 ELSE DaysBeforeMonth(y, m - 1) + DaysInMonth(y, m - 1)

\* date.toordinal(): days since 0001-01-01, that day being 1.
toordinal(d) ==
    LET y == d.year - 1
    IN  y * 365 + (y \div 4) - (y \div 100) + (y \div 400)
          + DaysBeforeMonth(d.year, d.month) + d.day

\* date <= date
DateLE(a, b) == toordinal(a) <= toordinal(b)

\* Strings are sequences of one-character strings.
Digits == <<"0", "1", "2", "3", "4", "5", "6", "7", "8", "9">>

RECURSIVE Pow10(_)
Pow10(n) == IF n = 0 THEN 1 ELSE 10 * Pow10(n - 1)

\* n printed in w digits with leading zeros.
ZeroPad(n, w) == [ i \in 1..w |-> Digits[((n \div Pow10(w - i)) % 10) + 1] ]

\* d.strftime('%Y-%m-%d')
strftime(d) ==
    ZeroPad(d.year, 4) \o <<"-">> \o ZeroPad(d.month, 2) \o <<"-">> \o ZeroPad(d.day, 2)

\* ----------------------------------------------------------------- tables
Range(s) == { s[i] : i \in 1..Len(s) }

\* pd.DataFrame(): no columns, no rows.
EmptyFrame == [kind |-> "empty", columns |-> {}, rows |-> <<>>]

\* DataFrame.empty
IsEmptyFrame(df) == (df.columns = {}) \/ (Len(df.rows) = 0)

VARIABLES
    pc,              \* position of the script
    start_date,      \* start_d, passed as start_date
    end_date,        \* end_d, passed as end_date
    serverSize,      \* number of detections the server holds for the range
    schema,          \* field names of the records the server holds
    params,          \* the params dictionary of get_bird_data
    offset,          \* local offset
    all_detections,  \* local all_detections
    requests,        \* params of every GET sent so far, in order
    outcome,         \* outcome of the GET in flight
    result,          \* table returned by get_bird_data
    messages,        \* st.info / st.error / st.warning / st.success calls
    view,            \* what the script shows after the call returned
    honest,          \* every answer so far was status 200 with the right slice
    failKind,        \* how a request of the invocation failed, "none" if none did
    horizon          \* the loop ran past MaxRequests requests

vars == << pc, start_date, end_date, serverSize, schema, params, offset,
           all_detections, requests, outcome, result, messages, view,
           honest, failKind, horizon >>

NoOutcome == [kind |-> "none"]
NoParams == [start |-> <<>>, end |-> <<>>, limit |-> 0, offset |-> 0]

\* ----------------------------------------------------------- the server
\* The detections the server holds for the range, in server order.
ServerList(n, sch) == [ i \in 1..n |-> [id |-> i, keys |-> sch] ]

Min(a, b) == IF a < b THEN a ELSE b

\* list[off : off + lim]
Slice(list, off, lim) == SubSeq(list, off + 1, Min(off + lim, Len(list)))

\* A JSON object with one member.
JsonObject(k, v) == [isDict |-> TRUE, obj |-> [ x \in {k} |-> v ]]

\* A JSON array at top level.
JsonArray(v) == [isDict |-> FALSE, obj |-> v]

HttpResponse(code, json) == [kind |-> "response", status_code |-> code, json |-> json]

\* The answers that deliver the requested slice in a shape the client reads.
HonestOutcomes(list, p) ==
    { HttpResponse(200, JsonObject(k, Slice(list, p.offset, p.limit))) :
        k \in {"detections", "data"} }

\* Everything requests.get can do for one request with parameters p.
Outcomes(list, p) ==
    HonestOutcomes(list, p) \cup
    { HttpResponse(200, JsonObject("detections", Slice(list, 0, p.limit))),
      HttpResponse(200, JsonArray(Slice(list, p.offset, p.limit))),
      HttpResponse(206, JsonObject("detections", Slice(list, p.offset, p.limit))),
      HttpResponse(500, JsonObject("error", <<>>)),
      [kind |-> "timeout"],
      [kind |-> "reqexc"] }

\* ------------------------------------------------------- get_bird_data
\* Lines 66-71: the detections of one decoded page.
NewDets(json) ==
    IF json.isDict
    THEN IF "detections" \in DOMAIN json.obj THEN json.obj["detections"]
         ELSE IF "data" \in DOMAIN json.obj THEN json.obj["data"]
         ELSE <<>>
    ELSE <<>>

\* A status check that only treats server errors as failures.
BreaksOnStatus_ServerErrorsOnly(code) == code >= 500

\* Line 59: the status check that ends the loop.
BreaksOnStatus(code) == code # 200

\* A last-page test that also stops on a page of exactly the limit.
IsLastPage_Inclusive(n) == n <= PAGE_LIMIT

\* Line 81: a page shorter than the limit is the last one.
IsLastPage(n) == n < PAGE_LIMIT

\* An offset that counts pages instead of records.
NextOffset_PageNumber(off) == off + 1

\* Line 85: the offset of the next request.
NextOffset(off) == off + PAGE_LIMIT

\* Line 78: all_detections.extend(new_dets)
Extend(all, new_dets) == all \o new_dets

\* Lines 93-117: the table built from the accumulated records.  A row is
\* identified by the detection it came from; the columns are the renamed
\* union of the records' field names.
BuildFrame(all) ==
    [ kind    |-> "api",
      columns |-> { rename_map(c) : c \in UNION { d.keys : d \in Range(all) } },
      rows    |-> [ i \in 1..Len(all) |-> [src |-> "api", key |-> all[i].id] ] ]

\* Lines 127-145: one row per half hour of the range, five fixed columns.
\* The values of the four random columns are not represented.
get_simulated_data(s, e) ==
    LET days == (toordinal(e) - toordinal(s)) + 1
        n    == days * 24 * 2
    IN  [ kind    |-> "sim",
          columns |-> {"Timestamp", "CommonName", "ScientificName", "Source", "Confidence"},
          rows    |-> [ i \in 1..n |-> [src |-> "sim", key |-> i - 1] ] ]

\* Except clauses that keep what was downloaded before the failure.
ExceptResult_KeepPartial(all, s, e) ==
    IF all = <<>> THEN get_simulated_data(s, e) ELSE BuildFrame(all)

\* Lines 119-125: what the two except clauses return.
ExceptResult(all, s, e) == get_simulated_data(s, e)

\* A function that falls through to an empty table after the loop.
AfterLoopResult_Empty(all) == EmptyFrame

\* Lines 89-117: what the function returns after the loop was left by break.
AfterLoopResult(all) == IF all = <<>> THEN EmptyFrame ELSE BuildFrame(all)

\* Lines 89-95: the message shown after the loop was left by break.
AfterLoopMessage(all) ==
    IF all = <<>> THEN <<"warning", "no detections">> ELSE <<"success", "downloaded">>

Init ==
    /\ pc = "main"
    /\ start_date \in Dates
    /\ end_date \in { d \in Dates : DateLE(start_date, d) }
    /\ serverSize \in ServerSizes
    /\ schema \in Schemas
    /\ params = NoParams
    /\ offset = 0
    /\ all_detections = <<>>
    /\ requests = <<>>
    /\ outcome = NoOutcome
    /\ result = EmptyFrame
    /\ messages = <<>>
    /\ view = "none"
    /\ honest = TRUE
    /\ failKind = "none"
    /\ horizon = FALSE

\* Lines 208-211 and 34-51: the script calls get_bird_data, which formats
\* the dates, initialises its locals and announces the download.
Call ==
    /\ pc = "main"
    /\ params' = [start |-> strftime(start_date), end |-> strftime(end_date),
                  limit |-> PAGE_LIMIT, offset |-> 0]
    /\ offset' = 0
    /\ all_detections' = <<>>
    /\ messages' = Append(messages, <<"info", "start">>)
    /\ pc' = "send"
    /\ UNCHANGED << start_date, end_date, serverSize, schema, requests, outcome,
                    result, view, honest, failKind, horizon >>

\* Lines 55-57: params["offset"] = offset; requests.get(...).
Send ==
    /\ pc = "send"
    /\ LET p == [params EXCEPT !.offset = offset]
       IN  /\ params' = p
           /\ \E o \in Outcomes(ServerList(serverSize, schema), p) :
                /\ outcome' = o
                /\ honest' = (honest /\ o \in HonestOutcomes(ServerList(serverSize, schema), p))
           /\ IF Len(requests) < MaxRequests
              THEN requests' = Append(requests, p) /\ horizon' = horizon
              ELSE requests' = requests /\ horizon' = TRUE
    /\ pc' = "recv"
    /\ UNCHANGED << start_date, end_date, serverSize, schema, offset, all_detections,
                    result, messages, view, failKind >>

\* Lines 119-121: requests.get raised Timeout.
RecvTimeout ==
    /\ pc = "recv"
    /\ outcome.kind = "timeout"
    /\ messages' = Append(messages, <<"error", "timeout">>)
    /\ result' = ExceptResult(all_detections, start_date, end_date)
    /\ failKind' = "timeout"
    /\ outcome' = NoOutcome
    /\ pc' = "returned"
    /\ UNCHANGED << start_date, end_date, serverSize, schema, params, offset,
                    all_detections, requests, view, honest, horizon >>

\* Lines 123-125: requests.get raised another RequestException.
RecvRequestException ==
    /\ pc = "recv"
    /\ outcome.kind = "reqexc"
    /\ messages' = Append(messages, <<"error", "connection">>)
    /\ result' = ExceptResult(all_detections, start_date, end_date)
    /\ failKind' = "reqexc"
    /\ outcome' = NoOutcome
    /\ pc' = "returned"
    /\ UNCHANGED << start_date, end_date, serverSize, schema, params, offset,
                    all_detections, requests, view, honest, horizon >>

\* Lines 59-61 and 89-117: a status other than 200 ends the loop.
RecvStatusError ==
    /\ pc = "recv"
    /\ outcome.kind = "response"
    /\ BreaksOnStatus(outcome.status_code)
    /\ messages' = messages \o << <<"error", "status">>, AfterLoopMessage(all_detections) >>
    /\ result' = AfterLoopResult(all_detections)
    /\ failKind' = "status"
    /\ outcome' = NoOutcome
    /\ pc' = "returned"
    /\ UNCHANGED << start_date, end_date, serverSize, schema, params, offset,
                    all_detections, requests, view, honest, horizon >>

\* Lines 63-76 and 89-117: a page without detections ends the loop.
RecvEndOfData ==
    /\ pc = "recv"
    /\ outcome.kind = "response"
    /\ ~BreaksOnStatus(outcome.status_code)
    /\ NewDets(outcome.json) = <<>>
    /\ messages' = Append(messages, AfterLoopMessage(all_detections))
    /\ result' = AfterLoopResult(all_detections)
    /\ outcome' = NoOutcome
    /\ pc' = "returned"
    /\ UNCHANGED << start_date, end_date, serverSize, schema, params, offset,
                    all_detections, requests, view, honest, failKind, horizon >>

\* Lines 63-82 and 89-117: a short page is appended and ends the loop.
RecvLastPage ==
    /\ pc = "recv"
    /\ outcome.kind = "response"
    /\ ~BreaksOnStatus(outcome.status_code)
    /\ LET new_dets == NewDets(outcome.json)
           all      == Extend(all_detections, new_dets)
       IN  /\ new_dets # <<>>
           /\ IsLastPage(Len(new_dets))
           /\ all_detections' = all
           /\ messages' = Append(messages, AfterLoopMessage(all))
           /\ result' = AfterLoopResult(all)
    /\ outcome' = NoOutcome
    /\ pc' = "returned"
    /\ UNCHANGED << start_date, end_date, serverSize, schema, params, offset,
                    requests, view, honest, failKind, horizon >>

\* Lines 63-85: a full page is appended and the loop goes on.
RecvFullPage ==
    /\ pc = "recv"
    /\ outcome.kind = "response"
    /\ ~BreaksOnStatus(outcome.status_code)
    /\ LET new_dets == NewDets(outcome.json)
       IN  /\ new_dets # <<>>
           /\ ~IsLastPage(Len(new_dets))
           /\ IF horizon
              THEN UNCHANGED << all_detections, offset >>
              ELSE /\ all_detections' = Extend(all_detections, new_dets)
                   /\ offset' = NextOffset(offset)
    /\ outcome' = NoOutcome
    /\ pc' = "send"
    /\ UNCHANGED << start_date, end_date, serverSize, schema, params, requests,
                    result, messages, view, honest, failKind, horizon >>

\* Lines 213-353: the script renders the returned table.  A non-empty table
\* is indexed by Timestamp (215), CommonName (340) and the five detail
\* columns (350); a missing column raises KeyError.
Render ==
    /\ pc = "returned"
    /\ IF ~IsEmptyFrame(result)
       THEN /\ view' = IF CanonicalColumns \subseteq result.columns
                       THEN "dashboard" ELSE "KeyError"
            /\ messages' = messages
       ELSE /\ view' = "nodata"
            /\ messages' = Append(messages, <<"info", "no data found">>)
    /\ pc' = "done"
    /\ UNCHANGED << start_date, end_date, serverSize, schema, params, offset,
                    all_detections, requests, outcome, result, honest, failKind, horizon >>

Next ==
    \/ Call
    \/ Send
    \/ RecvTimeout
    \/ RecvRequestException
    \/ RecvStatusError
    \/ RecvEndOfData
    \/ RecvLastPage
    \/ RecvFullPage
    \/ Render

Spec == Init /\ [][Next]_vars

\* The script runs to completion: it is a single thread that nothing suspends.
FairSpec == Spec /\ WF_vars(Next)

TypeOK ==
    /\ pc \in {"main", "send", "recv", "returned", "done"}
    /\ offset \in Nat
    /\ horizon \in BOOLEAN

\* ------------------------------------------------------------ properties
DigitValue(c) == CHOOSE n \in 0..9 : Digits[n + 1] = c

\* s is the text YYYY-MM-DD of date d.
IsIsoDate(s, d) ==
    /\ Len(s) = 10
    /\ s[5] = "-" /\ s[8] = "-"
    /\ \A i \in {1, 2, 3, 4, 6, 7, 9, 10} : \E n \in 0..9 : Digits[n + 1] = s[i]
    /\ d.year = 1000 * DigitValue(s[1]) + 100 * DigitValue(s[2])
                  + 10 * DigitValue(s[3]) + DigitValue(s[4])
    /\ d.month = 10 * DigitValue(s[6]) + DigitValue(s[7])
    /\ d.day = 10 * DigitValue(s[9]) + DigitValue(s[10])

Returned == pc \in {"returned", "done"}

\* The outcome of a request is a non-200 status, a timeout or a request exception.
EndsInFailure(o) ==
    \/ o.kind \in {"timeout", "reqexc"}
    \/ (o.kind = "response" /\ o.status_code # 200)

\* C1: the k-th GET of an invocation carries offset (k-1)*1000 and limit
\* 1000, and every GET carries the two dates of the call as YYYY-MM-DD.
C1_RequestParameters ==
    \A k \in 1..Len(requests) :
        /\ requests[k].offset = (k - 1) * 1000
        /\ requests[k].limit = 1000
        /\ IsIsoDate(requests[k].start, start_date)
        /\ IsIsoDate(requests[k].end, end_date)

C1_Witness ==
    /\ Len(requests) >= 3
    /\ requests[3].offset = 2000
    /\ start_date # end_date

\* C2: after a timeout or request exception, on any page, the function has
\* returned (nothing propagates), an error message was shown, and the table
\* is the synthetic one for the range (or empty) with no downloaded detection.
C2_NetworkFailureFallsBack ==
    (failKind \in {"timeout", "reqexc"}) =>
        /\ Returned
        /\ \E i \in 1..Len(messages) :
              messages[i] \in { <<"error", "timeout">>, <<"error", "connection">> }
        /\ \/ IsEmptyFrame(result)
           \/ /\ result.kind = "sim"
              /\ Len(result.rows) = 48 * (toordinal(end_date) - toordinal(start_date) + 1)
              /\ CanonicalColumns \subseteq result.columns
        /\ \A i \in 1..Len(result.rows) : result.rows[i].src # "api"
        /\ Range(result.rows) \cap { [src |-> "api", key |-> d.id] : d \in Range(all_detections) } = {}
        /\ view # "KeyError"

C2_Witness ==
    /\ failKind = "timeout"
    /\ pc = "done"
    /\ Len(all_detections) >= PAGE_LIMIT
    /\ result.kind = "sim"

\* C3: once a request ended in a non-200 status, a timeout or a request
\* exception, the invocation sends no further request; the fallback sends none.
C3_NoRetry ==
    [][ ((pc = "recv" /\ EndsInFailure(outcome)) \/ failKind # "none")
          => (pc' \notin {"send", "recv"} /\ requests' = requests) ]_vars

C3_Witness ==
    /\ failKind = "status"
    /\ pc = "done"
    /\ Len(requests) = 2

\* C4: every non-empty table returned by get_bird_data has the columns
\* Timestamp, CommonName, ScientificName, Source and Confidence.
C4_CanonicalShape ==
    (Returned /\ ~IsEmptyFrame(result)) => (CanonicalColumns \subseteq result.columns)

\* C5: against a server that answers every request with status 200 and the
\* requested slice of its N detections, the function accumulates exactly the
\* N detections in server order with floor(N/1000)+1 requests.
C5_HonestServerComplete ==
    (Returned /\ honest) =>
        /\ all_detections = ServerList(serverSize, schema)
        /\ Len(requests) = (serverSize \div 1000) + 1
        /\ Len(result.rows) = serverSize
        /\ \A i \in 1..serverSize : result.rows[i] = [src |-> "api", key |-> i]

C5_Witness ==
    /\ pc = "done"
    /\ honest
    /\ serverSize = 1000
    /\ Len(requests) = 2
    /\ requests[2].offset = 1000

\* C6: the pagination loop terminates for every server behaviour: the
\* function eventually returns.
C6_LoopTerminates == <>Returned

\* C7: a status other than 200 at offset k*1000 stops the loop and keeps the
\* k full pages: the table holds exactly those k*1000 detections, and for
\* k = 0 it is empty, with the warning, and the script shows 'no data found'.
C7_StatusErrorKeepsPages ==
    (failKind = "status" /\ Returned /\ ~horizon) =>
        LET k == Len(requests) - 1
        IN  /\ requests[k + 1].offset = k * 1000
            /\ Len(all_detections) = k * 1000
            /\ result.kind # "sim"
            /\ Len(result.rows) = k * 1000
            /\ \A i \in 1..(k * 1000) :
                  result.rows[i] = [src |-> "api", key |-> all_detections[i].id]
            /\ (k = 0) =>
                  /\ IsEmptyFrame(result)
                  /\ \E i \in 1..Len(messages) : messages[i] = <<"warning", "no detections">>
                  /\ (pc = "done") =>
                        /\ view = "nodata"
                        /\ messages[Len(messages)] = <<"info", "no data found">>

C7_Witness ==
    /\ failKind = "status"
    /\ pc = "done"
    /\ ~horizon
    /\ Len(requests) = 3
    /\ Len(result.rows) = 2000

====
